---- MODULE Spec2Model ----
(***************************************************************************)
(* mcp-remote-proxy: the credential lifecycle (TokenManager), the          *)
(* send / refresh-once / replay protocol (Forwarder) and the line gateway  *)
(* (StdioTransport), as one state machine.                                 *)
(*                                                                         *)
(* Granularity.  Node runs one callback at a time.  An action below is one *)
(* run of JavaScript from the event that resumes it (a line on stdin, an   *)
(* HTTP answer, a timer, a settled promise) to the next await.  Answers of *)
(* the two endpoints, timers and the clock are events of the event loop    *)
(* and happen only when no continuation is waiting to run (the microtask   *)
(* queue is drained first).  A line that arrives in the same chunk as an   *)
(* earlier one, before that one's continuation runs, finds the credential  *)
(* state it would find after it (such a continuation only issues the       *)
(* send), so lines are read when no continuation is waiting; the end of    *)
(* stdin may come at any point.                                            *)
(***************************************************************************)
EXTENDS Integers, Naturals, Sequences, FiniteSets, TLC

(* ------------------------------ bounds -------------------------------- *)
MaxLines == 2        \* lines read from stdin in one run
MaxTicks == 1        \* clock advances in one run
MaxExchanges == 3    \* token exchanges started in one run

(* ------------------------- program constants -------------------------- *)
expiryBufferMs == 30000
PARSE_ERROR == -32700
INVALID_REQUEST == -32600
INTERNAL_ERROR == -32603
TOKEN_ERROR == -32000
REMOTE_ERROR == -32001
TIMEOUT_ERROR == -32002

(* ------------------------------ inputs -------------------------------- *)
\* expires_in (seconds) of a token response; -1 stands for an absent field
NoExpiresIn == 0 - 1
ExpiresInValues == {NoExpiresIn, 0, 30, 60}
\* the clock advances by one buffer length at a time
TimeSteps == {expiryBufferMs}
\* kinds of line the local transport can deliver
LineKinds == {"empty", "badjson", "invalid", "request", "notification", "response"}
\* a JSON-RPC id: its JSON type and its value ("string" v is the text of v)
NullId == [t |-> "null", v |-> 0]
MkId(ty, n) == [t |-> ty, v |-> n]
\* the id of the message on line t: numbers on odd lines, strings on even ones
LineId(t) == MkId(IF t % 2 = 1 THEN "number" ELSE "string", t)
\* an id that differs from id: same digits, the other JSON type
OtherId(id) == IF id.t = "number" THEN MkId("string", id.v) ELSE MkId("number", id.v + 1)

\* what the token endpoint can answer; net tells how the fetch ended: with an
\* HTTP answer, with a network failure, or aborted by the timer
TokenOutcomes ==
    [ok : {TRUE}, status : {200}, hasToken : {TRUE}, expiresIn : ExpiresInValues,
     net : {"answered"}]
    \cup [ok : {TRUE}, status : {200}, hasToken : {FALSE}, expiresIn : {NoExpiresIn},
          net : {"answered"}]
    \cup [ok : {FALSE}, status : {400}, hasToken : {FALSE}, expiresIn : {NoExpiresIn},
          net : {"answered"}]
    \cup [ok : {FALSE}, status : {0}, hasToken : {FALSE}, expiresIn : {NoExpiresIn},
          net : {"failed"}]
TokenTimedOut == [ok |-> FALSE, status |-> 0, hasToken |-> FALSE, expiresIn |-> NoExpiresIn,
                  net |-> "aborted"]

\* what the remote endpoint can answer: an HTTP status with a body that is a
\* JSON-RPC envelope ("envelope", whose id is absent, echoed or another one;
\* with a non-2xx status it has an error member), a JSON object without
\* jsonrpc "2.0" ("invalid"), or not JSON at all ("notjson"); a non-2xx
\* envelope without an error member ("result"); with status 200 also the
\* JSON text null ("null"), an event stream without data lines ("ssenodata")
\* and one whose data is not a JSON document ("ssenotjson");
\* status 0 is a fetch that fails on the network ("failed") or is aborted by
\* the timer ("aborted")
\* sid is the Mcp-Session-Id header of the answer, 0 when it has none (or an
\* empty one)
SessionIds == {1, 2}
HttpAnswers(sids) ==
    [status : {401, 403}, body : {"notjson"}, rid : {"absent"}, sid : sids]
    \cup [status : {200, 500}, body : {"envelope"}, rid : {"absent", "echo", "other"},
          sid : sids]
    \cup [status : {200, 500}, body : {"invalid", "notjson"}, rid : {"absent"},
          sid : sids]
    \cup [status : {500}, body : {"result"}, rid : {"echo"}, sid : sids]
    \cup [status : {200}, body : {"null", "ssenodata", "ssenotjson"}, rid : {"absent"},
          sid : sids]
\* answers without a session header, and the fetch that fails
RemoteOutcomes ==
    HttpAnswers({0})
    \cup [status : {0}, body : {"failed"}, rid : {"absent"}, sid : {0}]
\* answers that carry a session header
SessionOutcomes == HttpAnswers(SessionIds)
RemoteTimedOut == [status |-> 0, body |-> "aborted", rid |-> "absent", sid |-> 0]
\* a 2xx answer whose headers arrive and whose body never completes
StalledBody == [status |-> 200, body |-> "stalled", rid |-> "absent", sid |-> 0]
NoAnswer == [status |-> 0, body |-> "none", rid |-> "absent", sid |-> 0]

(* ------------------------------- state -------------------------------- *)
VARIABLES
    proc,            \* "init" | "starting" | "running" | "exited"
    exitCode,        \* process.exit status, -1 while the process lives
    now,             \* Date.now()
    cachedToken,     \* TokenManager.cachedToken
    refreshPromise,  \* TokenManager.refreshPromise: the exchange it holds, or 0
    inflight,        \* token-exchange HTTP calls issued and not yet settled
    exchanges,       \* number of token-exchange HTTP calls issued so far
    fwd,             \* per line: the activation of processLine/forward
    sessionId        \* Forwarder.sessionId, 0 for null

vars == <<proc, exitCode, now, cachedToken, refreshPromise, inflight, exchanges,
          fwd, sessionId>>

Main == 0                    \* the pre-fetch of main()
Lines == 1..MaxLines
Tasks == 0..MaxLines
\* a credential: accessToken, expiresAt (hasExpiry: the field is set), and
\* for the record the expires_in it came with and the clock at that moment
NoToken == [accessToken |-> 0, hasExpiry |-> FALSE, expiresAt |-> 0,
            expiresIn |-> NoExpiresIn, issuedAt |-> 0]
\* an error: its class, its statusCode, and what its message tells ("status":
\* a non-2xx token answer, "missing": no access_token, "timeout", "error": the
\* rest)
NoError == [type |-> "none", statusCode |-> 0, msg |-> "none"]
MkError(ty, sc) == [type |-> ty, statusCode |-> sc, msg |-> "error"]
MkTokenError(m, sc) == [type |-> "TokenError", statusCode |-> sc, msg |-> m]
NoResponse == [src |-> "none", id |-> NullId, code |-> 0, statusCode |-> 0]
\* the activation of one line.  pc: where it stands; phase: which token call
\* or send of the protocol it is in; awaits: the exchange it waits for; tok:
\* the token string it holds; err: the error of its token call; outbound,
\* invals, forced: the remote calls, invalidateToken() and refreshToken()
\* calls the Forwarder made for it; ans: the remote's answer that ended the
\* send protocol; ret, resp: how forward() settled, err then being the error
\* the protocol ended with; wrote, written: the line processLine wrote
Idle == [kind |-> "none", id |-> NullId, pc |-> "idle", phase |-> "first",
         awaits |-> 0, tok |-> 0, err |-> NoError,
         outbound |-> 0, invals |-> 0, forced |-> 0, hdr |-> 0, ans |-> NoAnswer,
         ret |-> "none", resp |-> NoResponse, wrote |-> NoResponse, written |-> 0]
Done == [Idle EXCEPT !.pc = "done"]

\* a continuation is waiting in the microtask queue
Returned(t) == fwd[t].pc = "returned"
Runnable(t) == fwd[t].pc \in {"tokenReady", "tokenFailed"}
Quiescent == \A t \in Tasks : ~Runnable(t) /\ ~Returned(t)

Init ==
    /\ proc = "init"
    /\ exitCode = 0 - 1
    /\ now = 0
    /\ cachedToken = NoToken
    /\ refreshPromise = 0
    /\ inflight = {}
    /\ exchanges = 0
    /\ fwd = [t \in Tasks |-> Idle]
    /\ sessionId = 0

(* ---------------------------- TokenManager ---------------------------- *)
\* variant: a credential without an expiry is taken as expired
isTokenExpired_NoExpiryExpired(token, t) ==
    IF ~token.hasExpiry THEN TRUE ELSE t >= token.expiresAt - expiryBufferMs

\* isTokenExpired: no expiry recorded means never expired
isTokenExpired(token, t) ==
    IF ~token.hasExpiry THEN FALSE ELSE t >= token.expiresAt - expiryBufferMs

\* getToken's test: a cached token that is not expired is returned as it is
UsesCached(token, t) == token # NoToken /\ ~isTokenExpired(token, t)

\* variant: the handle of the exchange in progress is not looked at
JoinsInFlight_Never(rp) == FALSE

\* variant: the handle is kept once an exchange has been started
JoinsInFlight_HandleKept(rp) == exchanges > 0

\* refreshToken's test: an exchange is in progress, wait for it
JoinsInFlight(rp) == rp # 0

\* variant: the new token string is merged into the credential cached before
BuildToken_Merged(x, out, t) ==
    IF cachedToken = NoToken
    THEN [accessToken |-> x, hasExpiry |-> FALSE, expiresAt |-> 0,
          expiresIn |-> out.expiresIn, issuedAt |-> t]
    ELSE [cachedToken EXCEPT !.accessToken = x]

\* fetchToken, on the answer: the credential built from a token response.
\* expiresAt is set only when expires_in is truthy (not absent, not 0).
BuildToken(x, out, t) ==
    LET has == out.expiresIn # NoExpiresIn /\ out.expiresIn # 0
    IN [accessToken |-> x, hasExpiry |-> has,
        expiresAt |-> IF has THEN t + out.expiresIn * 1000 ELSE 0,
        expiresIn |-> out.expiresIn, issuedAt |-> t]

\* variant: the HTTP status is not put into the TokenError
FetchError_StatusDropped(out) ==
    IF out.net = "aborted" THEN MkTokenError("timeout", 0)
    ELSE IF out.net = "failed" THEN MkTokenError("error", 0)
    ELSE IF ~out.ok THEN MkTokenError("status", 0)
    ELSE IF ~out.hasToken THEN MkTokenError("missing", 0)
    ELSE NoError

\* variant: the failure leaves fetchToken as it is, not wrapped
FetchError_Unwrapped(out) ==
    IF out.ok /\ out.hasToken /\ out.net = "answered" THEN NoError ELSE MkError("Error", 0)

\* fetchToken, on the answer: the TokenError it throws, NoError on success
FetchError(out) ==
    IF out.net = "aborted" THEN MkTokenError("timeout", 0)
    ELSE IF out.net = "failed" THEN MkTokenError("error", 0)
    ELSE IF ~out.ok THEN MkTokenError("status", out.status)
    ELSE IF ~out.hasToken THEN MkTokenError("missing", 0)
    ELSE NoError

\* refreshToken called by task t whose activation is rec: join the exchange
\* in progress, or start one (fetchToken runs up to its fetch call)
refreshToken(t, rec) ==
    IF JoinsInFlight(refreshPromise)
    THEN /\ fwd' = [fwd EXCEPT ![t] = [rec EXCEPT !.pc = "awaitJoin",
                                                  !.awaits = refreshPromise]]
         /\ UNCHANGED <<refreshPromise, inflight, exchanges>>
    ELSE /\ exchanges < MaxExchanges
         /\ exchanges' = exchanges + 1
         /\ refreshPromise' = exchanges + 1
         /\ inflight' = inflight \cup {exchanges + 1}
         /\ fwd' = [fwd EXCEPT ![t] = [rec EXCEPT !.pc = "awaitOwn",
                                                  !.awaits = exchanges + 1]]

\* getToken called by task t whose activation is rec
getToken(t, rec) ==
    IF UsesCached(cachedToken, now)
    THEN /\ fwd' = [fwd EXCEPT ![t] = [rec EXCEPT !.pc = "tokenReady",
                                                  !.tok = cachedToken.accessToken]]
         /\ UNCHANGED <<refreshPromise, inflight, exchanges>>
    ELSE refreshToken(t, rec)

\* variant: the cached credential is left in place
invalidateToken_CacheKept == cachedToken

\* invalidateToken
invalidateToken == NoToken

\* isRefreshing
isRefreshing == refreshPromise # 0

(* ------------------------- JSON-RPC helpers --------------------------- *)
\* createErrorResponse
createErrorResponse(id, code, statusCode) ==
    [src |-> "proxy", id |-> id, code |-> code, statusCode |-> statusCode]

\* variant: every line that is not empty is taken as a message with a method
HasMethod_EveryLine(kind) == kind # "empty"

\* isRequest / isNotification, on a structurally valid message
HasMethod(kind) == kind \in {"request", "notification"}
HasId(kind) == kind \in {"request", "response"}

\* variant: every message with a method is taken as a Request
isRequest_EveryMethod(kind) == HasMethod(kind)

isRequest(kind) == HasMethod(kind) /\ HasId(kind)
isNotification(kind) == HasMethod(kind) /\ ~HasId(kind)

(* ------------------------------ Forwarder ----------------------------- *)
isAuthError(err) == err.type = "AuthError"

\* variant: the error response is built without the request's id
errorToResponse_NullId(id, err) ==
    createErrorResponse(NullId, IF err.type = "TokenError" THEN TOKEN_ERROR ELSE INTERNAL_ERROR,
                        err.statusCode)

\* variant: an AuthError is reported with the remote-error code
errorToResponse_AuthAsRemote(id, err) ==
    IF err.type = "TokenError" THEN createErrorResponse(id, TOKEN_ERROR, err.statusCode)
    ELSE IF err.type = "TimeoutError" THEN createErrorResponse(id, TIMEOUT_ERROR, 0)
    ELSE IF err.type \in {"RemoteError", "AuthError"}
         THEN createErrorResponse(id, REMOTE_ERROR, err.statusCode)
    ELSE createErrorResponse(id, INTERNAL_ERROR, 0)

\* errorToResponse: the subtype of the error picks the code
errorToResponse(id, err) ==
    IF err.type = "TokenError" THEN createErrorResponse(id, TOKEN_ERROR, err.statusCode)
    ELSE IF err.type = "AuthError" THEN createErrorResponse(id, TOKEN_ERROR, err.statusCode)
    ELSE IF err.type = "TimeoutError" THEN createErrorResponse(id, TIMEOUT_ERROR, 0)
    ELSE IF err.type = "RemoteError" THEN createErrorResponse(id, REMOTE_ERROR, err.statusCode)
    ELSE createErrorResponse(id, INTERNAL_ERROR, 0)

\* variant: the abort of the fetch is rethrown as it is
sendToRemote_AbortRethrown(out) ==
    IF out.status = 0 THEN MkError("Error", 0)
    ELSE IF out.status = 401 \/ out.status = 403 THEN MkError("AuthError", out.status)
    ELSE IF out.status >= 300 /\ out.body # "envelope" THEN MkError("RemoteError", out.status)
    ELSE NoError

\* variant: every non-2xx status is taken as an auth failure
sendToRemote_NonOkIsAuth(out) ==
    IF out.body = "aborted" THEN [MkError("TimeoutError", 0) EXCEPT !.msg = "timeout"]
    ELSE IF out.status = 0 THEN MkError("Error", 0)
    ELSE IF out.status >= 300 /\ out.body # "envelope" THEN MkError("AuthError", out.status)
    ELSE NoError

\* variant: every non-2xx answer other than 401/403 is a RemoteError
sendToRemote_NoPassThrough(out) ==
    IF out.body = "aborted" THEN [MkError("TimeoutError", 0) EXCEPT !.msg = "timeout"]
    ELSE IF out.status = 0 THEN MkError("Error", 0)
    ELSE IF out.status = 401 \/ out.status = 403 THEN MkError("AuthError", out.status)
    ELSE IF out.status >= 300 THEN MkError("RemoteError", out.status)
    ELSE NoError

\* sendToRemote, after the fetch: the error thrown for the answer out, NoError
\* when it hands a response (or null) back
sendToRemote(out) ==
    IF out.body = "aborted" THEN [MkError("TimeoutError", 0) EXCEPT !.msg = "timeout"]
    ELSE IF out.status = 0 THEN MkError("Error", 0)
    ELSE IF out.status = 401 \/ out.status = 403 THEN MkError("AuthError", out.status)
    ELSE IF out.status >= 300 /\ out.body # "envelope" THEN MkError("RemoteError", out.status)
    ELSE NoError

\* sendToRemote, before the fetch: the Mcp-Session-Id header of the call, 0
\* for none
sessionHeader(current) == current

\* variant: the session id is whatever the last answer carried, none when it
\* carried none
captureSession_LastAnswer(current, out) == out.sid

\* variant: a session id once captured is kept, later headers are ignored
captureSession_FirstKept(current, out) ==
    IF current = 0 THEN out.sid ELSE current

\* sendToRemote, on the answer: a non-empty Mcp-Session-Id header that differs
\* from the session id replaces it
captureSession(current, out) ==
    IF out.sid # 0 /\ out.sid # current THEN out.sid ELSE current

\* variant: the id of the remote's envelope is returned as it came
FillId_Never(originalId, dataId) == dataId

\* sendRequest: the id of the returned envelope; the original id is filled in
\* only where the remote left it out
FillId(originalId, dataId) ==
    IF originalId # NullId /\ dataId = NullId THEN originalId ELSE dataId

RemoteId(id, out) ==
    IF out.rid = "echo" THEN id ELSE IF out.rid = "other" THEN OtherId(id) ELSE NullId

\* sendRequest: data as parsed from the body of an envelope; of its members
\* only the id is told apart, the rest is what the remote sent ("remote")
ParsedBody(id, out) ==
    [src |-> "remote", id |-> RemoteId(id, out), code |-> 0, statusCode |-> 0]

\* sendRequest, after sendToRemote: [err, data].  response.json() throws a
\* SyntaxError on a body that is not JSON, parseSSEResponse a RemoteError on
\* an event stream it cannot parse, reading data.jsonrpc a TypeError when data
\* is null, and the validation a RemoteError when jsonrpc is not "2.0"
sendRequest(id, out) ==
    LET e == sendToRemote(out) IN
    IF e # NoError THEN [err |-> e, data |-> NoResponse]
    ELSE IF out.body = "notjson" THEN [err |-> MkError("Error", 0), data |-> NoResponse]
    ELSE IF out.body \in {"ssenodata", "ssenotjson"}
         THEN [err |-> MkError("RemoteError", 0), data |-> NoResponse]
    ELSE IF out.body = "null" THEN [err |-> MkError("Error", 0), data |-> NoResponse]
    ELSE IF out.body = "invalid" THEN [err |-> MkError("RemoteError", 0), data |-> NoResponse]
    ELSE LET data == ParsedBody(id, out)
         IN [err |-> NoError, data |-> [data EXCEPT !.id = FillId(id, data.id)]]

\* variant: the replay's auth failure is retried as well
Retries_EveryAuthError(phase, err) == isAuthError(err)

\* forwardWithRetry: the one case in which the failed send is followed by
\* invalidate, refresh and replay
Retries(phase, err) == phase = "first" /\ isAuthError(err)

\* forward: what the promise of forward(message) settles to, given the
\* outcome [err, data] of the send protocol
forward(kind, id, res) ==
    IF isNotification(kind)
    THEN IF res.err = NoError
         THEN [ret |-> "null", resp |-> NoResponse, err |-> NoError]
         ELSE [ret |-> "rejected", resp |-> NoResponse, err |-> res.err]
    ELSE IF res.err = NoError
         THEN [ret |-> "response", resp |-> res.data, err |-> NoError]
         ELSE [ret |-> "response", resp |-> errorToResponse(id, res.err), err |-> NoError]

(* --------------------------- StdioTransport --------------------------- *)
\* processLine, after the handler settled: the line it writes, if any
processLineWrites(kind, id, f) ==
    IF f.ret = "response" THEN f.resp
    ELSE IF f.ret = "rejected" /\ HasId(kind)
         THEN createErrorResponse(id, INTERNAL_ERROR, 0)
    ELSE NoResponse

\* the handler of line t settles with the send outcome res = [err, data];
\* processLine writes its reply
Finish(t, rec, res) ==
    LET f == forward(rec.kind, rec.id, res)
        w == processLineWrites(rec.kind, rec.id, f)
    IN fwd' = [fwd EXCEPT ![t] = [rec EXCEPT !.pc = "returned", !.awaits = 0, !.tok = 0,
                                             !.hdr = 0,
                                             !.ret = f.ret, !.resp = f.resp,
                                             !.err = res.err, !.wrote = w,
                                             !.written = IF w = NoResponse THEN 0 ELSE 1]]

(* ------------------------------ actions ------------------------------- *)
\* variant: the transport is started whatever the pre-fetch gave
afterPrefetch_StartAnyway(e) == "running"

\* main(), after the pre-fetch: the transport is started when it succeeded,
\* the process exits when it failed
afterPrefetch(e) == IF e = NoError THEN "running" ELSE "exited"

\* main(): loadConfig throws a ConfigurationError and the process exits with
\* status 1, or the configuration is valid, the managers are built and the
\* token is pre-fetched before the transport starts
main ==
    \E valid \in BOOLEAN :
        /\ proc = "init"
        /\ IF valid
           THEN /\ proc' = "starting"
                /\ getToken(Main, [Idle EXCEPT !.kind = "main"])
                /\ UNCHANGED exitCode
           ELSE /\ proc' = "exited"
                /\ exitCode' = 1
                /\ UNCHANGED <<refreshPromise, inflight, exchanges, fwd>>
        /\ UNCHANGED <<now, cachedToken, sessionId>>

\* the token endpoint answers exchange x: fetchToken settles, the caller that
\* started it stores the credential and clears the handle, every caller
\* awaiting it is resumed with its outcome
TokenEndpointResponds(x, out) ==
    LET e == FetchError(out)
        token == BuildToken(x, out, now)
        waits(t) == fwd[t].awaits = x /\ fwd[t].pc \in {"awaitOwn", "awaitJoin"}
        started == \E t \in Tasks : fwd[t].awaits = x /\ fwd[t].pc = "awaitOwn"
        mainWaits == waits(Main)
    IN /\ proc \in {"starting", "running"}
       /\ x \in inflight
       /\ Quiescent
       /\ inflight' = inflight \ {x}
       /\ cachedToken' = IF started /\ e = NoError THEN token ELSE cachedToken
       /\ refreshPromise' = IF started THEN 0 ELSE refreshPromise
       /\ fwd' = [t \in Tasks |->
                    IF ~waits(t) THEN fwd[t]
                    ELSE IF t = Main THEN Done
                    ELSE IF e = NoError
                         THEN [fwd[t] EXCEPT !.pc = "tokenReady", !.tok = token.accessToken]
                         ELSE [fwd[t] EXCEPT !.pc = "tokenFailed", !.err = e]]
       /\ proc' = IF ~mainWaits THEN proc ELSE afterPrefetch(e)
       /\ exitCode' = IF mainWaits /\ e # NoError THEN 1 ELSE exitCode
       /\ UNCHANGED <<now, exchanges, sessionId>>

TokenAnswer == \E x \in inflight : \E out \in TokenOutcomes : TokenEndpointResponds(x, out)

\* the token timer fires: the exchange is aborted and fails with a TokenError
TokenTimeout ==
    \E x \in inflight : TokenEndpointResponds(x, TokenTimedOut)

\* a line arrives: processLine runs up to its first await
ReadLine(t, kind, id) ==
    /\ proc = "running"
    /\ fwd[t].pc = "idle"
    /\ Quiescent
    /\ \A u \in Lines : u < t => fwd[u].pc # "idle"
    /\ IF HasMethod(kind)
       THEN getToken(t, [Idle EXCEPT !.kind = kind,
                                     !.id = IF HasId(kind) THEN id ELSE NullId])
       ELSE /\ fwd' = [fwd EXCEPT ![t] =
                 LET w == IF kind = "empty" THEN NoResponse
                          ELSE IF kind = "badjson"
                               THEN createErrorResponse(NullId, PARSE_ERROR, 0)
                          ELSE IF kind = "invalid"
                               THEN createErrorResponse(NullId, INVALID_REQUEST, 0)
                          ELSE [src |-> "local", id |-> id, code |-> 0, statusCode |-> 0]
                 IN [Idle EXCEPT !.pc = "returned", !.kind = kind,
                                 !.id = IF kind = "response" THEN id ELSE NullId,
                                 !.ret = IF kind = "response" THEN "response" ELSE "none",
                                 !.resp = IF kind = "response" THEN w ELSE NoResponse,
                                 !.wrote = w,
                                 !.written = IF w = NoResponse THEN 0 ELSE 1]]
            /\ UNCHANGED <<refreshPromise, inflight, exchanges>>
    /\ UNCHANGED <<proc, exitCode, now, cachedToken, sessionId>>

Line ==
    \E t \in Lines : \E kind \in LineKinds : ReadLine(t, kind, LineId(t))

\* variant: a failed forced refresh is followed by the replay all the same
Resume_ReplayAfterFailedRefresh(t) ==
    /\ proc = "running"
    /\ Runnable(t)
    /\ \A u \in Lines : ~Returned(u)
    /\ IF fwd[t].pc = "tokenFailed" /\ fwd[t].phase # "refresh"
       THEN /\ Finish(t, fwd[t], [err |-> fwd[t].err, data |-> NoResponse])
            /\ UNCHANGED <<refreshPromise, inflight, exchanges>>
       ELSE IF fwd[t].phase = "refresh"
       THEN getToken(t, [fwd[t] EXCEPT !.phase = "replay", !.awaits = 0, !.tok = 0])
       ELSE /\ fwd' = [fwd EXCEPT ![t] = [@ EXCEPT !.pc = "sending", !.awaits = 0,
                                                    !.outbound = @ + 1,
                                                    !.hdr = sessionHeader(sessionId)]]
            /\ UNCHANGED <<refreshPromise, inflight, exchanges>>
    /\ UNCHANGED <<proc, exitCode, now, cachedToken, sessionId>>

\* a continuation runs: the token arrived (send, or go on to the replay), or
\* the token call failed (the error leaves forward)
Resume(t) ==
    /\ proc = "running"
    /\ Runnable(t)
    /\ \A u \in Lines : ~Returned(u)
    /\ IF fwd[t].pc = "tokenFailed"
       THEN /\ Finish(t, fwd[t], [err |-> fwd[t].err, data |-> NoResponse])
            /\ UNCHANGED <<refreshPromise, inflight, exchanges>>
       ELSE IF fwd[t].phase = "refresh"
       THEN getToken(t, [fwd[t] EXCEPT !.phase = "replay", !.awaits = 0, !.tok = 0])
       ELSE /\ fwd' = [fwd EXCEPT ![t] = [@ EXCEPT !.pc = "sending", !.awaits = 0,
                                                    !.outbound = @ + 1,
                                                    !.hdr = sessionHeader(sessionId)]]
            /\ UNCHANGED <<refreshPromise, inflight, exchanges>>
    /\ UNCHANGED <<proc, exitCode, now, cachedToken, sessionId>>

Continue == \E t \in Lines : Resume(t)

\* processLine of line t has written its reply (or nothing) and returns.  It
\* touches nothing another activation reads, so it is taken before any other
\* waiting continuation.
EndLine(t) ==
    /\ proc = "running"
    /\ Returned(t)
    /\ fwd' = [fwd EXCEPT ![t] = Done]
    /\ UNCHANGED <<proc, exitCode, now, cachedToken, refreshPromise, inflight, exchanges,
                   sessionId>>

Return == \E t \in Lines : EndLine(t)

\* the remote call of line t settles with the answer out: a Request goes
\* through forwardWithRetry and sendRequest, a Notification through
\* sendToRemote alone.  sendToRemote clears its timer when it returns: a
\* Request whose 2xx body never completes then stays in sendRequest's read of
\* the body ("readingBody"), which nothing ends.
RemoteSettles(t, out) ==
    LET res == IF isRequest(fwd[t].kind) THEN sendRequest(fwd[t].id, out)
               ELSE [err |-> sendToRemote(out), data |-> NoResponse]
    IN /\ proc = "running"
       /\ fwd[t].pc = "sending"
       /\ Quiescent
       /\ IF isRequest(fwd[t].kind) /\ out.body = "stalled"
          THEN /\ fwd' = [fwd EXCEPT ![t] = [@ EXCEPT !.pc = "readingBody", !.ans = out]]
               /\ UNCHANGED <<cachedToken, refreshPromise, inflight, exchanges>>
          ELSE IF isRequest(fwd[t].kind) /\ Retries(fwd[t].phase, res.err)
          THEN /\ cachedToken' = invalidateToken
               /\ refreshToken(t, [fwd[t] EXCEPT !.phase = "refresh", !.tok = 0,
                                                 !.invals = @ + 1, !.forced = @ + 1,
                                                 !.hdr = 0,
                                                 !.ans = [NoAnswer EXCEPT !.sid = out.sid]])
          ELSE /\ Finish(t, [fwd[t] EXCEPT !.ans = out], res)
               /\ UNCHANGED <<cachedToken, refreshPromise, inflight, exchanges>>
       /\ sessionId' = captureSession(sessionId, out)
       /\ UNCHANGED <<proc, exitCode, now>>

RemoteAnswer == \E t \in Lines : \E out \in RemoteOutcomes : RemoteSettles(t, out)

\* the remote timer fires: the fetch is aborted
RemoteTimeout == \E t \in Lines : RemoteSettles(t, RemoteTimedOut)

\* the remote answers with an Mcp-Session-Id header
SessionAnswer == \E t \in Lines : \E out \in SessionOutcomes : RemoteSettles(t, out)

\* the remote sends 2xx headers and the body never completes
BodyStalls == \E t \in Lines : RemoteSettles(t, StalledBody)

\* the token endpoint grants a token without expires_in
TokenGranted ==
    \E x \in inflight :
        TokenEndpointResponds(x, [ok |-> TRUE, status |-> 200, hasToken |-> TRUE,
                                  expiresIn |-> NoExpiresIn, net |-> "answered"])

\* time passes
Tick ==
    \E d \in TimeSteps :
        /\ proc = "running"
        /\ Quiescent
        /\ now + d <= MaxTicks * expiryBufferMs
        /\ now' = now + d
        /\ UNCHANGED <<proc, exitCode, cachedToken, refreshPromise, inflight,
                       exchanges, fwd, sessionId>>

\* stdin ends: the close handler exits the process at once.  The memory of
\* the process is gone; of each activation only whether it was still in
\* progress is kept ("dropped").  Nothing on this path touches the
\* Forwarder's session id.
InProgress(t) == fwd[t].pc \notin {"idle", "done", "dropped"}
StdinClose ==
    /\ proc = "running"
    /\ \A t \in Lines : ~Returned(t)
    /\ proc' = "exited"
    /\ exitCode' = 0
    /\ cachedToken' = NoToken
    /\ refreshPromise' = 0
    /\ inflight' = {}
    /\ fwd' = [t \in Tasks |->
                 IF InProgress(t)
                 THEN [Idle EXCEPT !.pc = "dropped", !.kind = fwd[t].kind, !.id = fwd[t].id]
                 ELSE fwd[t]]
    /\ UNCHANGED <<now, exchanges, sessionId>>

Next ==
    \/ main
    \/ TokenAnswer
    \/ TokenTimeout
    \/ Line
    \/ Continue
    \/ Return
    \/ RemoteAnswer
    \/ RemoteTimeout
    \/ Tick
    \/ StdinClose

Spec == Init /\ [][Next]_vars

(* ------------------------- the session token -------------------------- *)
\* The program with a remote that sends Mcp-Session-Id headers, and a token
\* endpoint that grants a token without expiry or lets the exchange time out:
\* exchanges are then started by the pre-fetch and by forced refreshes only.
NextSession ==
    \/ main
    \/ TokenGranted
    \/ Line
    \/ Continue
    \/ Return
    \/ RemoteAnswer
    \/ RemoteTimeout
    \/ SessionAnswer
    \/ TokenTimeout
    \/ StdinClose

SpecSession == Init /\ [][NextSession]_vars

(* ----------------------- the body that stalls ------------------------- *)
\* The program with a remote that may send its headers and stall, and a token
\* endpoint that grants a token without expiry.  Continuations that are ready
\* run, and an armed timer fires unless its call has ended.
NextBody ==
    \/ main
    \/ TokenGranted
    \/ Line
    \/ Continue
    \/ Return
    \/ RemoteAnswer
    \/ RemoteTimeout
    \/ BodyStalls
    \/ StdinClose

SpecBody ==
    /\ Init
    /\ [][NextBody]_vars
    /\ WF_vars(Continue)
    /\ WF_vars(Return)
    /\ WF_vars(TokenGranted)
    /\ WF_vars(RemoteTimeout)

(* ------------------- the TokenManager driven directly ------------------ *)
\* The TokenManager alone, its three public operations called in any order
\* by callers that await the result (as its unit tests do), against the same
\* token endpoint and clock.  A caller's activation is a record of fwd; its
\* kind is the operation it called.
InitTM ==
    /\ proc = "running"
    /\ exitCode = 0 - 1
    /\ now = 0
    /\ cachedToken = NoToken
    /\ refreshPromise = 0
    /\ inflight = {}
    /\ exchanges = 0
    /\ fwd = [t \in Tasks |-> Idle]
    /\ sessionId = 0

\* a caller calls getToken()
callGetToken ==
    \E t \in Lines :
        /\ fwd[t].pc = "idle"
        /\ getToken(t, [Idle EXCEPT !.kind = "getToken"])
        /\ UNCHANGED <<proc, exitCode, now, cachedToken, sessionId>>

\* a caller calls refreshToken()
callRefreshToken ==
    \E t \in Lines :
        /\ fwd[t].pc = "idle"
        /\ refreshToken(t, [Idle EXCEPT !.kind = "refreshToken"])
        /\ UNCHANGED <<proc, exitCode, now, cachedToken, sessionId>>

\* a caller calls invalidateToken(), which returns at once
callInvalidateToken ==
    \E t \in Lines :
        /\ fwd[t].pc = "idle"
        /\ cachedToken' = invalidateToken
        /\ fwd' = [fwd EXCEPT ![t] = [Idle EXCEPT !.kind = "invalidateToken",
                                                  !.pc = "returned"]]
        /\ UNCHANGED <<proc, exitCode, now, refreshPromise, inflight, exchanges,
                       sessionId>>

\* a caller has its result (a token, a TokenError, nothing) and is free to
\* call again
callerDone ==
    \E t \in Lines :
        /\ Runnable(t) \/ Returned(t)
        /\ fwd' = [fwd EXCEPT ![t] = Idle]
        /\ UNCHANGED <<proc, exitCode, now, cachedToken, refreshPromise, inflight,
                       exchanges, sessionId>>

NextTM ==
    \/ callGetToken
    \/ callRefreshToken
    \/ callInvalidateToken
    \/ callerDone
    \/ TokenAnswer
    \/ TokenTimeout
    \/ Tick

SpecTM == InitTM /\ [][NextTM]_vars

(* ============================== claims ================================ *)
Waiting(t) == fwd[t].pc \in {"awaitOwn", "awaitJoin"}
\* task t resumed with the token of the exchange it awaited
Resolved(t) == fwd[t].pc = "tokenReady" /\ fwd[t].awaits # 0
\* in this step task t calls getToken(): from processLine or main, or for the
\* replay after its forced refresh
CallsGetToken(t) ==
    \/ fwd[t].pc = "idle" /\ fwd'[t].pc \in {"tokenReady", "awaitOwn", "awaitJoin"}
    \/ fwd[t].phase = "refresh" /\ fwd'[t].phase = "replay"
\* in this step the Forwarder calls refreshToken() for task t
ForcesRefresh(t) == fwd'[t].forced = fwd[t].forced + 1
\* in this step task t enters refreshToken(), by either way
CallsRefreshToken(t) == ~Waiting(t) /\ fwd'[t].pc \in {"awaitOwn", "awaitJoin"}
\* a Request's forward() has settled
ReturnedRequest(t) == Returned(t) /\ isRequest(fwd[t].kind)

\* C1: refreshToken() calls issued before the exchange in progress completes
\* share one token-exchange call: all calls waiting at the same time wait for
\* the same exchange, that exchange is the only HTTP call in flight, one
\* caller started it, and each caller is resumed with the access token that
\* this exchange returned.
C1_SingleFlight ==
    /\ \A a, b \in Tasks : Waiting(a) /\ Waiting(b) => fwd[a].awaits = fwd[b].awaits
    /\ \A a \in Tasks : Waiting(a) => inflight = {fwd[a].awaits}
    /\ \A a, b \in Tasks :
          fwd[a].pc = "awaitOwn" /\ fwd[b].pc = "awaitOwn" => a = b
    /\ \A a \in Tasks : Resolved(a) => fwd[a].tok = fwd[a].awaits
    /\ \A a, b \in Tasks : Resolved(a) /\ Resolved(b) => fwd[a].tok = fwd[b].tok

\* two callers were resumed by one exchange with its token
C1_Witness ==
    \E a, b \in Lines :
        /\ a # b
        /\ Resolved(a) /\ Resolved(b)
        /\ fwd[a].tok = fwd[b].tok
        /\ exchanges = fwd[a].tok

\* C2: at most one token-exchange HTTP call is in flight in every reachable
\* state; a caller that enters refreshToken() (from getToken() or as a forced
\* refresh after invalidateToken()) while a call is in flight starts no
\* exchange and waits for that one, and when an exchange settles every caller
\* waiting for it gets its outcome: its token, or its failure.
C2_OneExchangeInFlight ==
    /\ [](Cardinality(inflight) <= 1)
    /\ [][\A t \in Tasks :
            /\ CallsRefreshToken(t) /\ inflight # {} =>
                  /\ exchanges' = exchanges
                  /\ inflight' = inflight
                  /\ fwd'[t].pc = "awaitJoin"
                  /\ fwd'[t].awaits \in inflight
            /\ Waiting(t) /\ fwd[t].awaits \notin inflight' /\ proc' # "exited" =>
                  \/ fwd'[t].pc = "tokenReady" /\ fwd'[t].tok = fwd[t].awaits
                                               /\ fwd'[t].tok = cachedToken'.accessToken
                  \/ fwd'[t].pc = "tokenFailed" /\ fwd'[t].err.type = "TokenError"
                                                /\ cachedToken' = cachedToken
                  \/ t = Main /\ fwd'[t].pc = "done"]_vars

\* a forward found an exchange in flight and waits for it, after a 401/403
C2_Witness ==
    \E a, b \in Lines :
        /\ fwd[a].pc = "awaitOwn" /\ fwd[b].pc = "awaitJoin"
        /\ fwd[b].phase = "refresh"
        /\ fwd[a].awaits = fwd[b].awaits
        /\ inflight = {fwd[a].awaits}

\* C3: a Request whose first remote call returned 401/403 (it reached the
\* replay) and whose replay returned a 2xx JSON-RPC response: forward() called
\* invalidateToken() once and refreshToken() once, made two outbound calls and
\* returned the replay's parsed response with the original request's id.
C3_RetryOnceThenReplay ==
    \A t \in Lines :
        ReturnedRequest(t) /\ fwd[t].phase = "replay"
          /\ fwd[t].ans.status = 200 /\ fwd[t].ans.body = "envelope" =>
            /\ fwd[t].invals = 1
            /\ fwd[t].forced = 1
            /\ fwd[t].outbound = 2
            /\ fwd[t].ret = "response"
            /\ fwd[t].resp.src = "remote"
            /\ fwd[t].resp.id = fwd[t].id

\* C4: forward() makes at most two outbound calls, one invalidation and one
\* forced refresh per Request; when the replay too returns 401/403 it returns
\* an error Response with code -32000 after exactly two outbound calls, one
\* invalidation and one forced refresh.
C4_AtMostOneRetry ==
    \A t \in Lines :
        /\ fwd[t].outbound <= 2
        /\ fwd[t].invals <= 1
        /\ fwd[t].forced <= 1
        /\ ReturnedRequest(t) /\ fwd[t].phase = "replay"
             /\ fwd[t].ans.status \in {401, 403} =>
               /\ fwd[t].ret = "response"
               /\ fwd[t].resp.src = "proxy"
               /\ fwd[t].resp.code = TOKEN_ERROR
               /\ fwd[t].resp.id = fwd[t].id
               /\ fwd[t].outbound = 2
               /\ fwd[t].invals = 1
               /\ fwd[t].forced = 1

\* a Request came back after 401/403 on both sends
C4_Witness ==
    \E t \in Lines :
        /\ ReturnedRequest(t)
        /\ fwd[t].phase = "replay"
        /\ fwd[t].ans.status = 403
        /\ fwd[t].outbound = 2

\* C5: forward() of a Request never rejects and settles to exactly one
\* Response envelope; whenever the send protocol ended with an error (token,
\* auth, remote, timeout, network or parse failure) that envelope is an error
\* Response of the proxy carrying the request's id; otherwise it is the
\* remote's envelope.
C5_ForwardNeverRejects ==
    \A t \in Lines :
        ReturnedRequest(t) =>
            /\ fwd[t].ret = "response"
            /\ fwd[t].resp # NoResponse
            /\ fwd[t].written = 1
            /\ fwd[t].err # NoError =>
                  /\ fwd[t].resp.src = "proxy"
                  /\ fwd[t].resp.id = fwd[t].id
                  /\ fwd[t].resp.code \in {TOKEN_ERROR, REMOTE_ERROR, TIMEOUT_ERROR,
                                           INTERNAL_ERROR}
            /\ fwd[t].err = NoError => fwd[t].resp.src = "remote"

\* a Request whose token exchange failed came back as an error Response
C5_Witness ==
    \E t \in Lines :
        /\ ReturnedRequest(t)
        /\ fwd[t].err.type = "TokenError"
        /\ fwd[t].outbound = 0
        /\ fwd[t].resp.id = fwd[t].id

\* C6: every Request line read gets its Response written: once the process
\* has ended, no Request that was read is left without one.
C6_EveryRequestAnswered ==
    proc = "exited" =>
        \A t \in Lines : ~(fwd[t].pc = "dropped" /\ isRequest(fwd[t].kind))

\* C7: exactly one reply line per Request and none per Notification: a
\* Notification never has a line written, a Request has one once its handling
\* has ended or the process has.
C7_OneReplyPerRequest ==
    \A t \in Lines :
        /\ isNotification(fwd[t].kind) => fwd[t].written = 0
        /\ isRequest(fwd[t].kind) /\ (Returned(t) \/ proc = "exited") => fwd[t].written = 1

\* C8: the Response forward() returns for a Request has the Request's id, in
\* value and in type, whatever id the remote put into its response.
C8_ResponseIdIsRequestId ==
    \A t \in Lines :
        ReturnedRequest(t) /\ fwd[t].ret = "response" => fwd[t].resp.id = fwd[t].id

\* C9: a cached credential that is not within 30 s of its expiry is returned
\* by getToken() as it is, with no token exchange; so a token exchange starts
\* only when the cache is empty or within 30 s of its expiry, or as the forced
\* refresh that follows an auth failure.
NotNearExpiry(token, t) ==
    token # NoToken /\ (token.hasExpiry => t < token.expiresAt - expiryBufferMs)
C9_CachedTokenNoExchange ==
    [][/\ \A t \in Tasks :
             CallsGetToken(t) /\ NotNearExpiry(cachedToken, now) =>
                 /\ fwd'[t].pc = "tokenReady"
                 /\ fwd'[t].tok = cachedToken.accessToken
                 /\ exchanges' = exchanges
                 /\ inflight' = inflight
       /\ exchanges' # exchanges =>
             \/ ~NotNearExpiry(cachedToken, now)
             \/ \E t \in Lines : ForcesRefresh(t)]_vars

\* a second line is served from the cache: still one exchange in total
C9_Witness ==
    \E t, u \in Lines :
        /\ fwd[u].pc = "done"
        /\ fwd[t].pc = "tokenReady" /\ fwd[t].awaits = 0 /\ fwd[t].phase = "first"
        /\ fwd[t].tok = cachedToken.accessToken
        /\ exchanges = 1

\* C10: for a credential that came with expires_in = e at t_issue, getToken()
\* returns it without an exchange while now < t_issue + e*1000 - 30000 and
\* goes for a new exchange from then on, for every e, e = 0 included.
C10_ExpiryFromExpiresIn ==
    [][\A t \in Tasks :
          CallsGetToken(t) /\ cachedToken # NoToken
            /\ cachedToken.expiresIn # NoExpiresIn =>
              IF now < cachedToken.issuedAt + cachedToken.expiresIn * 1000 - expiryBufferMs
              THEN /\ fwd'[t].pc = "tokenReady"
                   /\ fwd'[t].tok = cachedToken.accessToken
                   /\ exchanges' = exchanges
              ELSE fwd'[t].pc \in {"awaitOwn", "awaitJoin"}]_vars

\* the token call task t awaited was rejected
Rejected(t) == fwd[t].pc = "tokenFailed"
\* in this step exchange x settles
Settles(x) == x \in inflight /\ x \notin inflight'

\* C11: a token exchange that fails leaves the cached credential as it was,
\* and every caller awaiting it, the one that started it and those that
\* joined it, is rejected with one and the same TokenError.
C11_FailedExchange ==
    /\ [](\A a, b \in Tasks :
            Rejected(a) /\ Rejected(b) =>
                /\ fwd[a].err.type = "TokenError"
                /\ fwd[a].err = fwd[b].err
                /\ fwd[a].awaits = fwd[b].awaits)
    /\ [][\A x \in inflight :
            /\ Settles(x)
            /\ \/ \E t \in Lines : fwd[t].awaits = x /\ Rejected(t)'
               \/ fwd[Main].awaits = x /\ exitCode' = 1
            => /\ cachedToken' = cachedToken
               /\ \A t \in Lines : Waiting(t) /\ fwd[t].awaits = x => Rejected(t)']_vars

\* the starter and a joiner of one exchange were rejected with its error; the
\* credential cached before is still there
C11_Witness ==
    \E a, b \in Lines :
        /\ a # b
        /\ Rejected(a) /\ Rejected(b)
        /\ fwd[a].awaits = 2 /\ fwd[b].awaits = 2
        /\ fwd[a].err = fwd[b].err
        /\ cachedToken.accessToken = 1

\* C12: the handle of the refresh in flight is cleared when its exchange
\* settles, however it ended: isRefreshing() is true exactly while an exchange
\* is in flight, and a refreshToken() call made with no exchange in flight
\* starts a new one.
C12_HandleCleared ==
    /\ [](isRefreshing <=> inflight # {})
    /\ [][/\ (\E x \in inflight : Settles(x)) => ~isRefreshing'
          /\ \A t \in Tasks :
                CallsRefreshToken(t) /\ ~isRefreshing =>
                    /\ exchanges' = exchanges + 1
                    /\ inflight' = {exchanges'}
                    /\ fwd'[t].pc = "awaitOwn"
                    /\ fwd'[t].awaits = exchanges']_vars

\* the second exchange failed (the cache still holds the first one's token)
\* and a third one has been started after it
C12_Witness ==
    \E t \in Lines :
        /\ exchanges = 3
        /\ inflight = {3}
        /\ fwd[t].pc = "awaitOwn" /\ fwd[t].awaits = 3
        /\ cachedToken.accessToken = 1

\* C13: when the forced refresh after a 401/403 fails, the Request is answered
\* with a -32000 error Response carrying its id, and no replay is sent: one
\* outbound call in all.
C13_FailedRefreshNoReplay ==
    /\ [](\A t \in Lines :
            /\ fwd[t].phase = "refresh" => fwd[t].outbound = 1
            /\ ReturnedRequest(t) /\ fwd[t].phase = "refresh" =>
                  /\ fwd[t].err.type = "TokenError"
                  /\ fwd[t].resp = createErrorResponse(fwd[t].id, TOKEN_ERROR,
                                                       fwd[t].err.statusCode)
                  /\ fwd[t].outbound = 1)
    /\ [][\A t \in Lines :
            Rejected(t) /\ fwd[t].phase = "refresh" /\ fwd'[t] # fwd[t]
              /\ proc' # "exited" =>
                /\ Returned(t)'
                /\ fwd'[t].phase = "refresh"
                /\ fwd'[t].outbound = 1]_vars

\* a Request came back after its forced refresh had failed
C13_Witness ==
    \E t \in Lines :
        /\ ReturnedRequest(t)
        /\ fwd[t].phase = "refresh"
        /\ fwd[t].forced = 1
        /\ fwd[t].resp.code = TOKEN_ERROR
        /\ fwd[t].resp.id = fwd[t].id

\* the calls the Forwarder has made for task t are those of a protocol that
\* ended in the given phase: one send, or send, invalidate, refresh and replay
CallsOf(t) == <<fwd[t].outbound, fwd[t].invals, fwd[t].forced>>
NoMoreCalls(t) ==
    IF fwd[t].phase = "first" THEN CallsOf(t) = <<1, 0, 0>> ELSE CallsOf(t) = <<2, 1, 1>>
\* in this step the remote call of task t settles and ends its protocol, with
\* no call to the remote or to the TokenManager after it
EndsProtocol(t) ==
    /\ Returned(t)'
    /\ fwd'[t].outbound = fwd[t].outbound
    /\ fwd'[t].invals = fwd[t].invals
    /\ fwd'[t].forced = fwd[t].forced
    /\ cachedToken' = cachedToken
    /\ exchanges' = exchanges
    /\ refreshPromise' = refreshPromise

\* C14: when the timer of a Request's remote call fires, the call is aborted
\* and forward() returns the -32002 error Response with the request's id; the
\* timed-out call is the last call made for the request: no further remote
\* call, no invalidation, no refresh.
C14_RemoteTimeout ==
    /\ [](\A t \in Lines :
            ReturnedRequest(t) /\ fwd[t].ans = RemoteTimedOut =>
                /\ fwd[t].err.type = "TimeoutError"
                /\ fwd[t].resp = createErrorResponse(fwd[t].id, TIMEOUT_ERROR, 0)
                /\ NoMoreCalls(t))
    /\ [][\A t \in Lines :
            fwd[t].pc = "sending" /\ isRequest(fwd[t].kind)
              /\ fwd'[t].ans = RemoteTimedOut => EndsProtocol(t)]_vars

\* a Request's first call timed out and it came back with -32002
C14_Witness ==
    \E t \in Lines :
        /\ ReturnedRequest(t)
        /\ fwd[t].ans = RemoteTimedOut
        /\ fwd[t].phase = "first"
        /\ fwd[t].outbound = 1
        /\ fwd[t].resp.code = TIMEOUT_ERROR

\* the remote answered with a non-2xx status other than 401/403 and a body
\* that is no JSON-RPC error envelope
PlainHttpError(out) ==
    /\ out.status >= 300 /\ out.status \notin {401, 403}
    /\ out.body \in {"invalid", "notjson", "result"}

\* C15: a non-2xx answer other than 401/403 whose body is no JSON-RPC error
\* envelope makes forward() return the -32001 error Response carrying the
\* request's id and the HTTP status; that answer is followed by no further
\* remote call, invalidation or refresh (one outbound call when it answers the
\* first send).
C15_RemoteHttpError ==
    /\ [](\A t \in Lines :
            ReturnedRequest(t) /\ PlainHttpError(fwd[t].ans) =>
                /\ fwd[t].err.type = "RemoteError"
                /\ fwd[t].resp = createErrorResponse(fwd[t].id, REMOTE_ERROR,
                                                     fwd[t].ans.status)
                /\ NoMoreCalls(t))
    /\ [][\A t \in Lines :
            fwd[t].pc = "sending" /\ isRequest(fwd[t].kind)
              /\ PlainHttpError(fwd'[t].ans) => EndsProtocol(t)]_vars

\* a Request's first call got a 500 with a body that is not JSON
C15_Witness ==
    \E t \in Lines :
        /\ ReturnedRequest(t)
        /\ fwd[t].ans.status = 500 /\ fwd[t].ans.body = "notjson"
        /\ fwd[t].phase = "first"
        /\ fwd[t].outbound = 1 /\ fwd[t].invals = 0 /\ fwd[t].forced = 0
        /\ fwd[t].resp.code = REMOTE_ERROR
        /\ fwd[t].resp.statusCode = 500

\* the code the taxonomy assigns to an error class
CodeOf(type) ==
    CASE type \in {"TokenError", "AuthError"} -> TOKEN_ERROR
      [] type = "RemoteError" -> REMOTE_ERROR
      [] type = "TimeoutError" -> TIMEOUT_ERROR
      [] OTHER -> INTERNAL_ERROR

\* C16: the error Response of a Request has the code fixed by the class of
\* the error that ended the protocol (TokenError, AuthError: -32000;
\* RemoteError: -32001; TimeoutError: -32002; anything else: -32603) and
\* carries the request's id.
C16_ErrorCodeMapping ==
    \A t \in Lines :
        ReturnedRequest(t) /\ fwd[t].err # NoError =>
            /\ fwd[t].resp.src = "proxy"
            /\ fwd[t].resp.code = CodeOf(fwd[t].err.type)
            /\ fwd[t].resp.id = fwd[t].id
            /\ fwd[t].resp.id # NullId

\* a Request ended by an AuthError (401/403 on the replay) got -32000
C16_Witness ==
    \E t \in Lines :
        /\ ReturnedRequest(t)
        /\ fwd[t].err.type = "AuthError"
        /\ fwd[t].resp.code = TOKEN_ERROR
        /\ fwd[t].resp.id = fwd[t].id

\* C17: no AuthError leaves forward(), whatever the kind of the message: the
\* promise of forward() is never rejected with an AuthError.
C17_AuthErrorStaysInside ==
    \A t \in Lines :
        Returned(t) => ~(fwd[t].ret = "rejected" /\ fwd[t].err.type = "AuthError")

\* C18: forward() of a Notification resolves to null whatever happened to the
\* send; it never rejects.
C18_NotificationNeverRejects ==
    \A t \in Lines :
        Returned(t) /\ isNotification(fwd[t].kind) =>
            fwd[t].ret = "null" /\ fwd[t].resp = NoResponse

\* C19: a Request ended by the timeout of an outbound call, the token exchange
\* or the remote call, is answered with the timeout code -32002.
C19_TimeoutCodeForEveryCall ==
    \A t \in Lines :
        ReturnedRequest(t) /\ fwd[t].err.msg = "timeout" =>
            fwd[t].resp.code = TIMEOUT_ERROR

\* the statuses with which the token endpoint can refuse
RefusalStatuses == {o.status : o \in {o \in TokenOutcomes : o.net = "answered" /\ ~o.ok}}

\* C20: a token exchange that got a non-2xx status, no access_token, no answer
\* at all or that timed out fails with a TokenError; its statusCode is the
\* HTTP status for a non-2xx answer and 0 in the other cases, and no credential
\* is cached from that exchange.
C20_TokenErrorStatus ==
    /\ [](\A out \in TokenOutcomes \cup {TokenTimedOut} :
            LET e == FetchError(out) IN
            IF out.net = "answered" /\ out.ok /\ out.hasToken THEN e = NoError
            ELSE /\ e.type = "TokenError"
                 /\ e.statusCode = IF out.net = "answered" /\ ~out.ok THEN out.status ELSE 0)
    /\ [](\A t \in Tasks :
            Rejected(t) =>
                /\ fwd[t].err.type = "TokenError"
                /\ fwd[t].err.msg = "status" => fwd[t].err.statusCode \in RefusalStatuses
                /\ fwd[t].err.msg \in {"missing", "timeout", "error"} =>
                       fwd[t].err.statusCode = 0
                /\ cachedToken.accessToken # fwd[t].awaits)
    /\ [][\A t \in Lines :
            Waiting(t) /\ Rejected(t)' => cachedToken' = cachedToken]_vars

\* a caller was rejected with the status of the token endpoint's refusal, the
\* cache still holding the credential of the first exchange
C20_Witness ==
    \E t \in Lines :
        /\ Rejected(t)
        /\ fwd[t].err = MkTokenError("status", 400)
        /\ fwd[t].awaits = 2
        /\ cachedToken.accessToken = 1

\* in this step caller t calls invalidateToken()
CallsInvalidateToken(t) == fwd[t].pc = "idle" /\ fwd'[t].kind = "invalidateToken"

\* C21: invalidateToken() sets the cached credential to absent and does
\* nothing else: no exchange is started, the handle of a refresh in flight and
\* every waiting caller are left as they are; a getToken() that finds the cache
\* empty does not return a token from the cache but goes for an exchange,
\* starting one unless one is in flight.
C21_InvalidateOnlyClears ==
    [][\A t \in Lines :
          /\ CallsInvalidateToken(t) =>
                /\ cachedToken' = NoToken
                /\ refreshPromise' = refreshPromise
                /\ inflight' = inflight
                /\ exchanges' = exchanges
                /\ now' = now
                /\ \A u \in Tasks \ {t} : fwd'[u] = fwd[u]
          /\ CallsGetToken(t) /\ fwd'[t].kind = "getToken" /\ cachedToken = NoToken =>
                /\ Waiting(t)'
                /\ fwd'[t].awaits \in inflight'
                /\ inflight = {} => exchanges' = exchanges + 1 /\ inflight' = {exchanges'}
                /\ inflight # {} => exchanges' = exchanges /\ inflight' = inflight]_vars

\* invalidateToken() was called with a refresh in flight: the cache is empty,
\* the refresh and its waiting caller are still there
C21_Witness ==
    \E t, u \in Lines :
        /\ fwd[t].kind = "invalidateToken" /\ Returned(t)
        /\ fwd[u].pc = "awaitOwn" /\ fwd[u].awaits = 2
        /\ refreshPromise = 2 /\ inflight = {2}
        /\ cachedToken = NoToken

\* C22: refreshToken() called with no exchange in flight starts a new exchange
\* whatever the cache holds, a valid credential included; when that exchange
\* succeeds the cache is the credential built from its response and from
\* nothing else, and a getToken() that finds it unexpired returns its token
\* with no further exchange.
C22_RefreshReplacesCache ==
    [][\A t \in Lines :
          /\ CallsRefreshToken(t) /\ fwd'[t].kind = "refreshToken" /\ inflight = {} =>
                /\ exchanges' = exchanges + 1
                /\ fwd'[t].pc = "awaitOwn" /\ fwd'[t].awaits = exchanges'
                /\ cachedToken' = cachedToken
          /\ fwd[t].pc = "awaitOwn" /\ fwd'[t].pc = "tokenReady" =>
                /\ \E out \in TokenOutcomes :
                       cachedToken' = [accessToken |-> fwd[t].awaits,
                                       hasExpiry |-> out.expiresIn > 0,
                                       expiresAt |-> IF out.expiresIn > 0
                                                     THEN now + out.expiresIn * 1000 ELSE 0,
                                       expiresIn |-> out.expiresIn, issuedAt |-> now]
                /\ fwd'[t].tok = fwd[t].awaits
          /\ CallsGetToken(t) /\ fwd'[t].kind = "getToken"
               /\ cachedToken.accessToken = exchanges /\ exchanges > 0
               /\ ~isTokenExpired(cachedToken, now) =>
                /\ fwd'[t].pc = "tokenReady" /\ fwd'[t].tok = exchanges
                /\ exchanges' = exchanges]_vars

\* refreshToken() was called with a valid credential in the cache, its
\* exchange succeeded, and the cache now holds the new credential
C22_Witness ==
    \E t \in Lines :
        /\ fwd[t].kind = "refreshToken"
        /\ fwd[t].pc = "tokenReady" /\ fwd[t].tok = 2
        /\ cachedToken.accessToken = 2
        /\ cachedToken.expiresIn = 60
        /\ exchanges = 2

\* the cache holds a credential that came without expires_in
CachedWithoutExpiresIn == cachedToken # NoToken /\ cachedToken.expiresIn = NoExpiresIn

\* C23: a credential that came without expires_in has no expiry and is never
\* expired: whatever the clock, getToken() returns it from the cache with no
\* exchange, and it leaves the cache only through invalidateToken() or the
\* success of a refresh.
C23_NoExpiryNeverExpires ==
    /\ [](CachedWithoutExpiresIn =>
             ~cachedToken.hasExpiry /\ ~isTokenExpired(cachedToken, now))
    /\ [][/\ \A t \in Lines :
                CallsGetToken(t) /\ fwd'[t].kind = "getToken" /\ CachedWithoutExpiresIn =>
                    /\ fwd'[t].pc = "tokenReady"
                    /\ fwd'[t].tok = cachedToken.accessToken
                    /\ exchanges' = exchanges
                    /\ inflight' = inflight
                    /\ cachedToken' = cachedToken
          /\ CachedWithoutExpiresIn /\ cachedToken' # cachedToken =>
                \/ \E t \in Lines : CallsInvalidateToken(t)
                \/ \E x \in inflight : Settles(x) /\ cachedToken'.accessToken = x]_vars

\* after the clock moved, getToken() returned the credential without
\* expires_in from the cache
C23_Witness ==
    \E t \in Lines :
        /\ now >= expiryBufferMs
        /\ CachedWithoutExpiresIn
        /\ cachedToken.issuedAt = 0
        /\ fwd[t].kind = "getToken"
        /\ fwd[t].pc = "tokenReady" /\ fwd[t].awaits = 0
        /\ fwd[t].tok = cachedToken.accessToken

\* the remote call of line t is sent / its answer arrives
SendsRemote(t) == fwd[t].pc # "sending" /\ fwd'[t].pc = "sending"
RemoteAnswered(t) == fwd[t].pc = "sending" /\ fwd'[t].pc # "sending"

\* C24: an answer of the remote that carries a non-empty Mcp-Session-Id
\* header, whatever its status, makes that value the session id, in place of
\* any earlier one; every remote call carries the session id of the moment it
\* is sent, none while nothing has been captured; nothing else changes the
\* session id and nothing clears it.
C24_SessionToken ==
    /\ sessionId = 0
    /\ [][/\ \A t \in Lines :
                RemoteAnswered(t) =>
                    sessionId' = IF fwd'[t].ans.sid # 0 THEN fwd'[t].ans.sid ELSE sessionId
          /\ \A t \in Lines : SendsRemote(t) => fwd'[t].hdr = sessionId
          /\ (\A t \in Lines : ~RemoteAnswered(t)) => sessionId' = sessionId
          /\ sessionId # 0 => sessionId' # 0]_vars

\* a call was sent with the session id captured from a 401 answer, and while
\* it is out another answer has replaced the session id
C24_Witness ==
    \E t \in Lines :
        /\ fwd[t].pc = "sending" /\ fwd[t].phase = "replay"
        /\ fwd[t].hdr = 1
        /\ sessionId = 2

\* the remote answered with a non-2xx status other than 401/403 and a body
\* that is a JSON-RPC envelope with an error member
ErrorEnvelope(out) ==
    out.status >= 300 /\ out.status \notin {401, 403} /\ out.body = "envelope"

\* C25: a non-2xx answer other than 401/403 whose body is a JSON-RPC envelope
\* with an error member is handled as a response: forward() returns that
\* envelope, with the request's id where the envelope has none, and not an
\* error Response of the proxy; the answer ends the protocol with no retry, no
\* invalidation and no refresh (one outbound call when it answers the first
\* send).
C25_ErrorEnvelopePassThrough ==
    /\ [](\A t \in Lines :
            ReturnedRequest(t) /\ ErrorEnvelope(fwd[t].ans) =>
                /\ fwd[t].err = NoError
                /\ fwd[t].ret = "response"
                /\ fwd[t].resp.src = "remote"
                /\ fwd[t].resp.code = 0
                /\ fwd[t].resp.id = IF fwd[t].ans.rid = "absent" THEN fwd[t].id
                                    ELSE RemoteId(fwd[t].id, fwd[t].ans)
                /\ fwd[t].wrote = fwd[t].resp
                /\ NoMoreCalls(t))
    /\ [][\A t \in Lines :
            fwd[t].pc = "sending" /\ isRequest(fwd[t].kind)
              /\ ErrorEnvelope(fwd'[t].ans) => EndsProtocol(t)]_vars

\* a Request's first call got a 500 with an error envelope without id, and
\* the envelope came back with the request's id after that one call
C25_Witness ==
    \E t \in Lines :
        /\ ReturnedRequest(t)
        /\ fwd[t].ans.status = 500 /\ fwd[t].ans.body = "envelope"
        /\ fwd[t].ans.rid = "absent"
        /\ fwd[t].phase = "first"
        /\ fwd[t].outbound = 1 /\ fwd[t].invals = 0 /\ fwd[t].forced = 0
        /\ fwd[t].resp.src = "remote"
        /\ fwd[t].resp.id = fwd[t].id

\* the remote's answer was parsed into an envelope whose id is null or absent
EnvelopeWithoutId(t) ==
    /\ fwd[t].ans.body = "envelope"
    /\ fwd[t].ans.status \notin {401, 403}
    /\ ParsedBody(fwd[t].id, fwd[t].ans).id = NullId

\* C26: when the envelope parsed from the remote's answer has a null or
\* absent id and the Request's id is not null, the Response forward() returns
\* is that envelope with the Request's id put in and nothing else changed.
C26_IdFilledIn ==
    \A t \in Lines :
        ReturnedRequest(t) /\ EnvelopeWithoutId(t) /\ fwd[t].id # NullId =>
            /\ fwd[t].ret = "response"
            /\ fwd[t].resp.id = fwd[t].id
            /\ fwd[t].resp = [ParsedBody(fwd[t].id, fwd[t].ans) EXCEPT !.id = fwd[t].id]

\* a 200 envelope without id came back carrying the string id of the Request
C26_Witness ==
    \E t \in Lines :
        /\ ReturnedRequest(t)
        /\ fwd[t].ans.status = 200 /\ fwd[t].ans.body = "envelope"
        /\ fwd[t].ans.rid = "absent"
        /\ fwd[t].id.t = "string"
        /\ fwd[t].resp.src = "remote"
        /\ fwd[t].resp.id = fwd[t].id

\* the remote answered 2xx with a body that parses as JSON and has no
\* jsonrpc "2.0": an object without it, or the value null
LacksJsonRpc(out) == out.status = 200 /\ out.body \in {"invalid", "null"}

\* C27: a 2xx answer whose parsed body lacks jsonrpc "2.0" makes forward()
\* return the -32001 error Response with the request's id, never the remote's
\* body, and the answer is followed by no retry.
C27_InvalidJsonRpcResponse ==
    /\ [](\A t \in Lines :
            ReturnedRequest(t) /\ LacksJsonRpc(fwd[t].ans) =>
                /\ fwd[t].err.type = "RemoteError"
                /\ fwd[t].resp = createErrorResponse(fwd[t].id, REMOTE_ERROR, 0)
                /\ NoMoreCalls(t))
    /\ [][\A t \in Lines :
            fwd[t].pc = "sending" /\ isRequest(fwd[t].kind)
              /\ LacksJsonRpc(fwd'[t].ans) => EndsProtocol(t)]_vars

\* the remote answered 200 or 500 with a body that cannot be parsed as JSON,
\* as plain text or as an event stream
Unparseable(out) ==
    /\ out.status \in {200, 500}
    /\ out.body \in {"notjson", "ssenodata", "ssenotjson"}

\* C28: a remote answer whose body cannot be parsed as JSON, with a plain
\* JSON content type or as an event stream (no data lines, or data that is
\* not a JSON document), is classified as a RemoteError, and forward()
\* returns the -32001 code, not -32603.
C28_UnparseableIsRemoteError ==
    \A t \in Lines :
        ReturnedRequest(t) /\ Unparseable(fwd[t].ans) =>
            /\ fwd[t].err.type = "RemoteError"
            /\ fwd[t].resp.src = "proxy"
            /\ fwd[t].resp.code = REMOTE_ERROR
            /\ fwd[t].resp.code # INTERNAL_ERROR

\* in this step line t is read and is of kind k
ReadsLine(t, k) == fwd[t].pc = "idle" /\ fwd'[t].pc # "idle" /\ fwd'[t].kind = k

\* processLine of line t ended without calling the handler: no token was
\* asked for, no remote call made, and the TokenManager is as it was
HandlerNotInvoked(t) ==
    /\ Returned(t)'
    /\ fwd'[t].ret = "none"
    /\ fwd'[t].tok = 0 /\ fwd'[t].awaits = 0
    /\ fwd'[t].outbound = 0 /\ fwd'[t].invals = 0 /\ fwd'[t].forced = 0
    /\ UNCHANGED <<cachedToken, refreshPromise, inflight, exchanges, sessionId>>

\* C29: a line that is not JSON yields one error envelope with id null and
\* code -32700, a line that is JSON but no valid JSON-RPC message one with id
\* null and code -32600, an empty line yields nothing; in none of the three
\* cases is the handler invoked: no token access and no remote call.
C29_LocalErrors ==
    [][\A t \in Lines :
          /\ ReadsLine(t, "badjson") =>
                /\ fwd'[t].wrote = createErrorResponse(NullId, -32700, 0)
                /\ fwd'[t].written = 1
                /\ HandlerNotInvoked(t)
          /\ ReadsLine(t, "invalid") =>
                /\ fwd'[t].wrote = createErrorResponse(NullId, -32600, 0)
                /\ fwd'[t].written = 1
                /\ HandlerNotInvoked(t)
          /\ ReadsLine(t, "empty") =>
                /\ fwd'[t].wrote = NoResponse
                /\ fwd'[t].written = 0
                /\ HandlerNotInvoked(t)
          /\ Returned(t) /\ fwd[t].kind \in {"badjson", "invalid", "empty"}
                /\ fwd'[t] # fwd[t] => fwd'[t] = Done]_vars

\* after a line that is no valid message, a line that is not JSON was
\* answered with -32700 and id null, the pre-fetch being the only exchange
C29_Witness ==
    /\ fwd[1].pc = "done"
    /\ Returned(2)
    /\ fwd[2].kind = "badjson"
    /\ fwd[2].wrote.code = PARSE_ERROR /\ fwd[2].wrote.id = NullId
    /\ fwd[2].written = 1
    /\ exchanges = 1

\* no line has been read and no remote call made
NothingProcessed == \A t \in Lines : fwd[t] = Idle
\* the TokenManager has not been used
TokenManagerUnused ==
    exchanges = 0 /\ inflight = {} /\ refreshPromise = 0 /\ cachedToken = NoToken

\* C30: startup is ordered.  Until the configuration is validated the
\* TokenManager is not used; an invalid configuration ends the process with
\* status 1 at once; the transport reads lines only once the pre-fetch, the
\* first exchange, has succeeded and stored its token; a failed pre-fetch
\* ends the process with status 1; and a process that ended with status 1
\* has read no line and made no remote call.
C30_StartupOrder ==
    /\ [](proc = "init" => TokenManagerUnused)
    /\ [](proc \in {"init", "starting"} => NothingProcessed /\ sessionId = 0)
    /\ [](proc = "running" => fwd[Main] = Done /\ exchanges >= 1)
    /\ [](exitCode = 1 => proc = "exited" /\ NothingProcessed /\ cachedToken = NoToken)
    /\ [][/\ proc = "init" /\ proc' # "starting" =>
                proc' = "exited" /\ exitCode' = 1 /\ TokenManagerUnused'
          /\ proc = "init" /\ proc' = "starting" => exchanges' = 1 /\ inflight' = {1}
          /\ proc = "starting" /\ proc' = "running" =>
                Settles(1) /\ cachedToken' # NoToken /\ cachedToken'.accessToken = 1
          /\ proc = "starting" /\ Settles(1) /\ cachedToken' = NoToken =>
                proc' = "exited" /\ exitCode' = 1
          /\ \A t \in Lines : fwd[t].pc = "idle" /\ fwd'[t].pc # "idle" =>
                proc = "running"]_vars

\* the pre-fetch failed and the process ended with status 1, no line read
C30_Witness ==
    /\ proc = "exited" /\ exitCode = 1
    /\ exchanges = 1 /\ inflight = {}
    /\ fwd[Main] = Done
    /\ NothingProcessed

\* the forced refresh of task t has completed with a token, and in this step
\* the replay begins: sendRequest is called again and asks for its token
BeginsReplay(t) ==
    /\ fwd[t].phase = "refresh" /\ fwd[t].pc = "tokenReady"
    /\ fwd'[t].phase = "replay"

\* C31: the replay after a successful forced refresh is sent with the token
\* that refresh returned and acquires none of its own: when the replay
\* begins it holds the refresh's token at once, no exchange is started or
\* awaited for it, and it is sent with that token.
C31_ReplayUsesRefreshedToken ==
    [][\A t \in Lines :
          /\ BeginsReplay(t) =>
                /\ fwd'[t].pc = "tokenReady"
                /\ fwd'[t].tok = fwd[t].tok
                /\ exchanges' = exchanges
                /\ inflight' = inflight
          /\ SendsRemote(t) /\ fwd[t].phase = "replay" =>
                fwd[t].awaits = 0 /\ fwd'[t].tok = fwd[t].tok]_vars

\* in this step the Forwarder calls invalidateToken() for task t
Invalidates(t) == fwd'[t].invals = fwd[t].invals + 1

\* C32: within one Request the events come in order.  invalidateToken() is
\* called only when the answer to the first remote call is observed, with the
\* forced refresh begun in the same run; while the refresh is pending one call
\* has been made and none is out; the replay begins only when the exchange the
\* refresh awaited has completed with a token; and the replay's call is sent
\* after that, as the second call, when the first is no longer out.
C32_RetryOrder ==
    /\ [](\A t \in Lines :
            /\ fwd[t].phase = "first" =>
                  fwd[t].invals = 0 /\ fwd[t].forced = 0 /\ fwd[t].outbound <= 1
            /\ fwd[t].phase \in {"refresh", "replay"} =>
                  fwd[t].invals = 1 /\ fwd[t].forced = 1
            /\ fwd[t].phase = "refresh" =>
                  fwd[t].outbound = 1 /\ fwd[t].pc # "sending"
            /\ fwd[t].pc = "sending" =>
                  fwd[t].outbound = IF fwd[t].phase = "first" THEN 1 ELSE 2)
    /\ [][\A t \in Lines :
            /\ Invalidates(t) =>
                  /\ fwd[t].pc = "sending" /\ fwd[t].phase = "first"
                  /\ cachedToken' = NoToken
                  /\ ForcesRefresh(t)
                  /\ fwd'[t].phase = "refresh" /\ Waiting(t)'
                  /\ fwd'[t].awaits \in inflight'
            /\ fwd[t].phase = "refresh" /\ fwd'[t].phase = "replay" =>
                  /\ fwd[t].pc = "tokenReady"
                  /\ fwd[t].awaits # 0 /\ fwd[t].awaits \notin inflight
            /\ SendsRemote(t) /\ fwd[t].outbound = 1 =>
                  /\ fwd[t].phase = "replay" /\ fwd[t].pc = "tokenReady"
                  /\ fwd'[t].outbound = 2]_vars

\* the replay of a Request is out: after one invalidation and one forced
\* refresh, as its second call
C32_Witness ==
    \E t \in Lines :
        /\ fwd[t].pc = "sending" /\ fwd[t].phase = "replay"
        /\ fwd[t].outbound = 2 /\ fwd[t].invals = 1 /\ fwd[t].forced = 1
        /\ cachedToken.accessToken = 2
        /\ inflight = {}

\* in this step the timer of the remote call of task t fires
RemoteTimesOut(t) == fwd[t].pc = "sending" /\ fwd'[t].ans = RemoteTimedOut
\* task t awaits exchange x
Awaits(t, x) == Waiting(t) /\ fwd[t].awaits = x
\* in this step the timer of token exchange x fires
TokenTimesOut(x) ==
    /\ Settles(x)
    /\ \E t \in Lines : Awaits(t, x) /\ Rejected(t)' /\ fwd'[t].err.msg = "timeout"
\* the step leaves every activation but those of the set S as it was
OthersUntouched(S) == \A u \in Tasks \ S : fwd'[u] = fwd[u]

\* C33, as the code has it: the timer of a remote call ends that call alone:
\* every other activation, the cached credential, the refresh handle, the
\* exchanges in flight and the session id stay as they were.  The timer of a
\* token exchange ends that exchange alone: it leaves the in-flight set, the
\* refresh handle that held it is cleared, the activations awaiting it are
\* resumed with its failure, and every other activation (remote calls that
\* are out included), the cached credential and the session id stay as they
\* were.
C33_TimeoutFrame ==
    [][/\ \A t \in Lines :
            RemoteTimesOut(t) =>
                /\ OthersUntouched({t})
                /\ UNCHANGED <<cachedToken, refreshPromise, inflight, exchanges, sessionId>>
      /\ \A x \in inflight :
            TokenTimesOut(x) =>
                /\ OthersUntouched({u \in Tasks : Awaits(u, x)})
                /\ \A u \in Lines : Awaits(u, x) => Rejected(u)'
                /\ inflight' = inflight \ {x}
                /\ refreshPromise' = (IF refreshPromise = x THEN 0 ELSE refreshPromise)
                /\ UNCHANGED <<cachedToken, exchanges, sessionId>>]_vars

\* C33, as stated: firing the timeout of one outbound call, to the remote or
\* to the token endpoint, leaves the activations of all other forwards, the
\* cached credential, the refresh handle and the session id unchanged.
C33_TimeoutFrameAsStated ==
    [][/\ \A t \in Lines :
            RemoteTimesOut(t) =>
                /\ OthersUntouched({t})
                /\ UNCHANGED <<cachedToken, refreshPromise, sessionId>>
      /\ \A x \in inflight :
            TokenTimesOut(x) =>
                /\ OthersUntouched({u \in Tasks : fwd[u].pc = "awaitOwn" /\ fwd[u].awaits = x})
                /\ UNCHANGED <<cachedToken, refreshPromise, sessionId>>]_vars

\* the remote call of line 1 timed out while line 2 awaits the forced refresh
\* it started and a session id is set
C33_Witness ==
    /\ Returned(1) /\ fwd[1].ans = RemoteTimedOut
    /\ fwd[1].resp.code = TIMEOUT_ERROR
    /\ fwd[2].pc = "awaitOwn" /\ refreshPromise = fwd[2].awaits
    /\ sessionId # 0

\* the headers of a 2xx answer to the Request of line t have arrived and
\* sendRequest is reading the body
ReadingBody(t) == fwd[t].pc = "readingBody" /\ isRequest(fwd[t].kind)

\* C34: the timer of a Request's remote call covers the reading of the
\* response body: a Request whose 2xx answer never completes its body still
\* comes back with the -32002 error Response, unless the process ends first.
C34_TimeoutCoversBody ==
    \A t \in Lines :
        [](ReadingBody(t) =>
              <>(\/ Returned(t)
                    /\ fwd[t].resp = createErrorResponse(fwd[t].id, TIMEOUT_ERROR, 0)
                 \/ proc = "exited"))

\* in this step the first call of the Request of line t is answered 401/403
AuthFailureObserved(t) ==
    /\ fwd[t].pc = "sending" /\ fwd[t].phase = "first"
    /\ fwd'[t].phase = "refresh"
\* the cache holds a credential newer than the one line t's call was sent with
NewerCredentialCached(t) ==
    cachedToken # NoToken /\ cachedToken.accessToken > fwd[t].tok

\* C35: a 401/403 for a call sent with credential T discards only T: when a
\* refresh that completed after the call was sent has installed a newer
\* credential, the late 401/403 leaves that credential in the cache and
\* starts no token exchange.
C35_LateAuthFailure ==
    [][\A t \in Lines :
          AuthFailureObserved(t) /\ NewerCredentialCached(t) =>
              /\ cachedToken' = cachedToken
              /\ exchanges' = exchanges
              /\ inflight' = inflight]_vars

\* C36: in the program, where only the pre-fetch and the Forwarder call the
\* TokenManager, the cached credential is absent or expired whenever the
\* refresh handle is set; so every getToken() called while an exchange is in
\* flight awaits that exchange and returns no cached token.
C36_HandleImpliesNoValidToken ==
    /\ [](isRefreshing =>
             /\ cachedToken = NoToken \/ isTokenExpired(cachedToken, now)
             /\ ~UsesCached(cachedToken, now)
             /\ inflight = {refreshPromise})
    /\ [][\A t \in Tasks :
            CallsGetToken(t) /\ isRefreshing =>
                /\ fwd'[t].pc = "awaitJoin"
                /\ fwd'[t].awaits = refreshPromise
                /\ exchanges' = exchanges]_vars

\* a getToken() joined the exchange another line had started because the
\* cached credential had expired
C36_Witness ==
    \E t, u \in Lines :
        /\ fwd[t].pc = "awaitJoin" /\ fwd[t].phase = "first"
        /\ fwd[u].pc = "awaitOwn" /\ fwd[u].phase = "first"
        /\ fwd[t].awaits = refreshPromise
        /\ cachedToken # NoToken /\ isTokenExpired(cachedToken, now)

\* in this step exchange x completes with a token
Succeeds(x) ==
    /\ Settles(x)
    /\ \E t \in Tasks :
          /\ Awaits(t, x)
          /\ IF t = Main THEN proc' = "running"
             ELSE fwd'[t].pc = "tokenReady" /\ fwd'[t].tok = x

\* C37: the cached credential is absent or the result of the exchange that
\* succeeded last.  Exchanges complete one at a time; the one that succeeds
\* is stored in that step, by the caller that started it, with the clock of
\* that moment; apart from that the cache changes only when invalidateToken()
\* empties it; and a cached credential is older than every exchange still in
\* flight.
C37_CacheIsLatestSuccess ==
    /\ [](cachedToken # NoToken =>
             /\ cachedToken.accessToken \in 1..exchanges
             /\ \A y \in inflight : cachedToken.accessToken < y)
    /\ [][/\ \A x \in inflight :
                Succeeds(x) =>
                    /\ \E t \in Tasks : fwd[t].pc = "awaitOwn" /\ fwd[t].awaits = x
                    /\ cachedToken'.accessToken = x
                    /\ cachedToken'.issuedAt = now
                    /\ cachedToken' # NoToken
          /\ cachedToken' # cachedToken /\ proc' # "exited" =>
                \/ \E x \in inflight : Succeeds(x) /\ cachedToken'.accessToken = x
                \/ cachedToken' = NoToken /\ \E t \in Lines : Invalidates(t)
          /\ \A x, y \in inflight : Settles(x) /\ Settles(y) /\ proc' # "exited" => x = y]_vars

\* a second exchange succeeded after the clock moved and replaced the
\* credential of the first
C37_Witness ==
    /\ cachedToken.accessToken = 2
    /\ cachedToken.issuedAt = expiryBufferMs
    /\ exchanges = 2
    /\ inflight = {}
    /\ \E t \in Lines : fwd[t].pc = "tokenReady" /\ fwd[t].tok = 2

\* the remote answered 401 or 403
AuthRefusal(out) == out.status \in {401, 403}

\* C38: a Notification whose remote call is answered 401/403 is sent once:
\* the answer ends its handling with no invalidation, no refresh and no
\* replay, and leaves the cached credential as it was.
C38_NotificationNoRetry ==
    /\ [](\A t \in Lines :
            Returned(t) /\ isNotification(fwd[t].kind) /\ AuthRefusal(fwd[t].ans) =>
                /\ fwd[t].phase = "first"
                /\ CallsOf(t) = <<1, 0, 0>>)
    /\ [](\A t \in Lines :
            isNotification(fwd[t].kind) => fwd[t].phase = "first" /\ fwd[t].outbound <= 1)
    /\ [][\A t \in Lines :
            fwd[t].pc = "sending" /\ isNotification(fwd[t].kind)
              /\ AuthRefusal(fwd'[t].ans) => EndsProtocol(t)]_vars

\* a Notification answered 403 has ended after its one call, the credential
\* it was sent with still cached
C38_Witness ==
    \E t \in Lines :
        /\ Returned(t) /\ isNotification(fwd[t].kind)
        /\ fwd[t].ans.status = 403
        /\ fwd[t].outbound = 1 /\ fwd[t].invals = 0 /\ fwd[t].forced = 0
        /\ cachedToken # NoToken
        /\ exchanges = 1

\* the Request of line t has come back because the getToken() of its first
\* send failed
FirstTokenFailed(t) ==
    /\ ReturnedRequest(t)
    /\ fwd[t].phase = "first"
    /\ fwd[t].err.type = "TokenError"

\* C39: when the getToken() before the first send fails with a TokenError,
\* forward() of a Request returns the -32000 error Response with the
\* request's id, and has made no remote call, no invalidation and no refresh;
\* the failure ends the Request in the step that delivers it.
C39_NoTokenNoSend ==
    /\ [](\A t \in Lines :
            FirstTokenFailed(t) =>
                /\ fwd[t].ret = "response"
                /\ fwd[t].resp = createErrorResponse(fwd[t].id, -32000, fwd[t].err.statusCode)
                /\ fwd[t].wrote = fwd[t].resp
                /\ CallsOf(t) = <<0, 0, 0>>
                /\ fwd[t].ans = NoAnswer)
    /\ [][\A t \in Lines :
            Rejected(t) /\ fwd[t].phase = "first" /\ isRequest(fwd[t].kind)
              /\ fwd'[t] # fwd[t] /\ proc' # "exited" =>
                /\ Returned(t)'
                /\ fwd'[t].outbound = 0
                /\ UNCHANGED <<cachedToken, refreshPromise, inflight, exchanges>>]_vars

\* the token endpoint refused the exchange the Request's getToken() had
\* started, and the Request came back with -32000 and no call made
C39_Witness ==
    \E t \in Lines :
        /\ FirstTokenFailed(t)
        /\ fwd[t].err.statusCode = 400
        /\ fwd[t].resp.code = TOKEN_ERROR /\ fwd[t].resp.id = fwd[t].id
        /\ fwd[t].outbound = 0
        /\ exchanges = 2
====
